---- MODULE Spec2Model ----
(***************************************************************************)
(* Model of the sp2ts conversion engine (src/sp2ts/sp2ts.py): conversion   *)
(* between (settlement date, settlement period) and Unix timestamps over   *)
(* the GB clock-change table TRANSITION_DATES_TS.                          *)
(*                                                                         *)
(* Representation.  A Python value is a record [type, val]:                *)
(*   - a datetime.date is [type |-> "date", val |-> days since 1970-01-01],*)
(*     a datetime.datetime at 00:00:00 is [type |-> "datetime", val |->    *)
(*     days] (datetime is a subclass of date, so isinstance(x, date)       *)
(*     holds for it);                                                      *)
(*   - an int is [type |-> "int", val |-> n]; a str, float, ... argument   *)
(*     given where an int is expected carries its own type tag;            *)
(*   - a str is [type |-> "str", val |-> s];                               *)
(*   - a datetime passed to to_unixtime or dt2sp is [type |-> "datetime",  *)
(*     wall |-> its wall-clock reading in seconds since 1970-01-01 00:00,  *)
(*     tzinfo |-> "" when naive, else the name of its timezone].           *)
(* A call either returns (ok = TRUE) or raises (ok = FALSE) an exception   *)
(* of Python class exc; kind is the failure kind of the error taxonomy and *)
(* at names the function whose raise statement fired.                      *)
(***************************************************************************)
EXTENDS Integers, Sequences, FiniteSets

VARIABLES
    TRANSITION_DATES_TS,  \* the module-level table, read by every call
    pc,                   \* "call": arguments bound, body not run; "return": finished
    fn,                   \* which function the call is to
    date_,                \* argument date_ of sp2ts
    sp_,                  \* argument sp_ of sp2ts
    closed,               \* argument closed of sp2ts (or omitted)
    timestamp_,           \* argument timestamp_ of ts2sp
    datetime_,            \* argument datetime_ of to_unixtime and dt2sp
    timezone_,            \* argument timezone_ of to_unixtime and dt2sp
    legacy_TRANSITION_DATES_TS,  \* the table of the older copy, src/sp2ts.py
    result,               \* what the call returned or raised
    callers,              \* concurrent callers: each one's position, call and result
    observed              \* every <<call, outcome>> a concurrent caller has got so far

vars ==
    <<TRANSITION_DATES_TS, legacy_TRANSITION_DATES_TS, pc, fn, date_, sp_, closed,
      timestamp_, datetime_, timezone_, result, callers, observed>>

(* The tables and the arguments of the call: what no function assigns.     *)
frame ==
    <<TRANSITION_DATES_TS, legacy_TRANSITION_DATES_TS, fn, date_, sp_, closed,
      timestamp_, datetime_, timezone_, callers, observed>>

(* The variables of the single call, which concurrent callers leave alone. *)
single == <<pc, fn, date_, sp_, closed, timestamp_, datetime_, timezone_, result>>

-----------------------------------------------------------------------------
(* A table regenerated with the year 1992 left out.                        *)
TABLE_LITERAL_gap ==
    << <<638323200, 657072000>>, <<670377600, 688521600>>,
       <<733276800, 751420800>>, <<764726400, 782870400>> >>

(* The table literal, src/sp2ts/sp2ts.py lines 19-68.                      *)
TABLE_LITERAL ==
    << <<638323200, 657072000>>,   <<670377600, 688521600>>,
       <<701827200, 719971200>>,   <<733276800, 751420800>>,
       <<764726400, 782870400>>,   <<796176000, 814320000>>,
       <<828230400, 846374400>>,   <<859680000, 877824000>>,
       <<891129600, 909273600>>,   <<922579200, 941328000>>,
       <<954028800, 972777600>>,   <<985478400, 1004227200>>,
       <<1017532800, 1035676800>>, <<1048982400, 1067126400>>,
       <<1080432000, 1099180800>>, <<1111881600, 1130630400>>,
       <<1143331200, 1162080000>>, <<1174780800, 1193529600>>,
       <<1206835200, 1224979200>>, <<1238284800, 1256428800>>,
       <<1269734400, 1288483200>>, <<1301184000, 1319932800>>,
       <<1332633600, 1351382400>>, <<1364688000, 1382832000>>,
       <<1396137600, 1414281600>>, <<1427587200, 1445731200>>,
       <<1459036800, 1477785600>>, <<1490486400, 1509235200>>,
       <<1521936000, 1540684800>>, <<1553990400, 1572134400>>,
       <<1585440000, 1603584000>>, <<1616889600, 1635638400>>,
       <<1648339200, 1667088000>>, <<1679788800, 1698537600>>,
       <<1711843200, 1729987200>>, <<1743292800, 1761436800>>,
       <<1774742400, 1792886400>>, <<1806192000, 1824940800>>,
       <<1837641600, 1856390400>>, <<1869091200, 1887840000>>,
       <<1901145600, 1919289600>>, <<1932595200, 1950739200>>,
       <<1964044800, 1982793600>>, <<1995494400, 2014243200>>,
       <<2026944000, 2045692800>>, <<2058393600, 2077142400>>,
       <<2090448000, 2108592000>>, <<2121897600, 2140041600>> >>

(* The table literal of the older copy, src/sp2ts.py lines 15-26.          *)
LEGACY_TABLE_LITERAL ==
    << <<954028800, 972777600>>,   <<985478400, 1004227200>>,
       <<1017532800, 1035676800>>, <<1048982400, 1067126400>>,
       <<1080432000, 1099180800>>, <<1111881600, 1130630400>>,
       <<1143331200, 1162080000>>, <<1174780800, 1193529600>>,
       <<1206835200, 1224979200>>, <<1238284800, 1256428800>>,
       <<1269734400, 1288483200>>, <<1301184000, 1319932800>>,
       <<1332633600, 1351382400>>, <<1364688000, 1382832000>>,
       <<1396137600, 1414281600>>, <<1427587200, 1445731200>>,
       <<1459036800, 1477785600>>, <<1490486400, 1509235200>>,
       <<1521936000, 1540684800>>, <<1553990400, 1572134400>>,
       <<1585440000, 1603584000>>, <<1616889600, 1635638400>>,
       <<1648339200, 1667088000>>, <<1679788800, 1698537600>>,
       <<1711843200, 1729987200>>, <<1743292800, 1761436800>>,
       <<1774742400, 1792886400>>, <<1806192000, 1824940800>>,
       <<1837641600, 1856390400>>, <<1869091200, 1887840000>> >>

(* x[0] and x[1] of a table row; TRANSITION_DATES_TS[0][0] and [-1][1].    *)
Spring(x) == x[1]
Fall(x) == x[2]
FirstSpring == Spring(TRANSITION_DATES_TS[1])
LastFall == Fall(TRANSITION_DATES_TS[Len(TRANSITION_DATES_TS)])

-----------------------------------------------------------------------------
(* Outcomes of a call.                                                     *)
NoError == [ok |-> TRUE, exc |-> "", kind |-> "", at |-> ""]
Raise(e, k, where) == [ok |-> FALSE, exc |-> e, kind |-> k, at |-> where]
ReturnTs(t) == [ok |-> TRUE, exc |-> "", kind |-> "", at |-> "", ts |-> t]
ReturnInt(n) == [ok |-> TRUE, exc |-> "", kind |-> "", at |-> "", val |-> n]
ReturnDt(x) == [ok |-> TRUE, exc |-> "", kind |-> "", at |-> "", dt |-> x]
ReturnSp(d, p) == [ok |-> TRUE, exc |-> "", kind |-> "", at |-> "", date |-> d, sp |-> p]
Pending == [ok |-> FALSE, exc |-> "", kind |-> "pending", at |-> ""]

(* Python values.                                                          *)
PyDate(d) == [type |-> "date", val |-> d]
PyInt(n) == [type |-> "int", val |-> n]
PyStr(s) == [type |-> "str", val |-> s]
PyDatetime(w, z) == [type |-> "datetime", wall |-> w, tzinfo |-> z]
PyNone == [type |-> "NoneType", val |-> ""]
Absent == [type |-> "absent", val |-> 0]
AbsentDt == [type |-> "absent", wall |-> 0, tzinfo |-> ""]
Omitted == [type |-> "omitted", val |-> ""]

(* str.lower() on the boundary strings the model passes.                   *)
Lower(s) ==
    CASE s = "LEFT" -> "left"
      [] s = "Right" -> "right"
      [] s = "MIDDLE" -> "middle"
      [] OTHER -> s

-----------------------------------------------------------------------------
(* to_unixtime(datetime.combine(date_, time()), "UTC"): the UTC midnight   *)
(* of the calendar day.  combine() ignores the time part of a datetime.    *)
midnight_ts(d) == 86400 * d.val

(* from_unixtime(t).date(): the UTC calendar day holding instant t.        *)
from_unixtime_date(t) == PyDate(t \div 86400)

(* date(y, m, d) as days since 1970-01-01 (proleptic Gregorian calendar).  *)
DaysFromCivil(y, m, d) ==
    LET yy == IF m <= 2 THEN y - 1 ELSE y
        era == yy \div 400
        yoe == yy - era * 400
        mp == IF m > 2 THEN m - 3 ELSE m + 9
        doy == ((153 * mp + 2) \div 5) + d - 1
        doe == yoe * 365 + (yoe \div 4) - (yoe \div 100) + doy
    IN era * 146097 + doe - 719468

(* in_bst with the season closed at both ends.                             *)
in_bst_both_closed(ts) ==
    \E i \in 1..Len(TRANSITION_DATES_TS) :
        /\ Spring(TRANSITION_DATES_TS[i]) <= ts
        /\ ts <= Fall(TRANSITION_DATES_TS[i])

(* in_bst with the season closed on the left and open on the right.        *)
in_bst_closed_left(ts) ==
    \E i \in 1..Len(TRANSITION_DATES_TS) :
        /\ Spring(TRANSITION_DATES_TS[i]) <= ts
        /\ ts < Fall(TRANSITION_DATES_TS[i])

(* any(x[0] < ts <= x[1] for x in TRANSITION_DATES_TS)                     *)
in_bst(ts) ==
    \E i \in 1..Len(TRANSITION_DATES_TS) :
        /\ Spring(TRANSITION_DATES_TS[i]) < ts
        /\ ts <= Fall(TRANSITION_DATES_TS[i])

(* _max_sp with the two day lengths exchanged.                             *)
_max_sp_swapped(d) ==
    LET date_ts == midnight_ts(d) IN
    IF \E i \in 1..Len(TRANSITION_DATES_TS) : Spring(TRANSITION_DATES_TS[i]) = date_ts
    THEN 50
    ELSE IF \E i \in 1..Len(TRANSITION_DATES_TS) : Fall(TRANSITION_DATES_TS[i]) = date_ts
         THEN 46
         ELSE 48

_max_sp(d) ==
    LET date_ts == midnight_ts(d) IN
    IF \E i \in 1..Len(TRANSITION_DATES_TS) : Spring(TRANSITION_DATES_TS[i]) = date_ts
    THEN 46
    ELSE IF \E i \in 1..Len(TRANSITION_DATES_TS) : Fall(TRANSITION_DATES_TS[i]) = date_ts
         THEN 50
         ELSE 48

_validate_date(d) ==
    IF d.type \notin {"date", "datetime"}
    THEN Raise("TypeError", "TypeMismatch", "_validate_date")
    ELSE NoError

_validate_timestamp(t) ==
    IF t.type # "int"
    THEN Raise("TypeError", "TypeMismatch", "_validate_timestamp")
    ELSE IF t.val < 0
         THEN Raise("ValueError", "OutOfRange", "_validate_timestamp")
         ELSE NoError

(* _validate_closed comparing the string as given, without lower().       *)
_validate_closed_exact(c) ==
    IF c.type # "str"
    THEN Raise("TypeError", "TypeMismatch", "_validate_closed")
    ELSE IF c.val \notin {"right", "left", "middle"}
         THEN Raise("ValueError", "InvalidEnum", "_validate_closed")
         ELSE NoError

_validate_closed(c) ==
    IF c.type # "str"
    THEN Raise("TypeError", "TypeMismatch", "_validate_closed")
    ELSE IF Lower(c.val) \notin {"right", "left", "middle"}
         THEN Raise("ValueError", "InvalidEnum", "_validate_closed")
         ELSE NoError

(* _validate_sp with the upper bound exclusive.                            *)
_validate_sp_exclusive(p, d) ==
    IF p.type # "int"
    THEN Raise("TypeError", "TypeMismatch", "_validate_sp")
    ELSE IF ~(1 <= p.val /\ p.val < _max_sp(d))
         THEN Raise("ValueError", "InvalidPeriod", "_validate_sp")
         ELSE NoError

_validate_sp(p, d) ==
    IF p.type # "int"
    THEN Raise("TypeError", "TypeMismatch", "_validate_sp")
    ELSE IF ~(1 <= p.val /\ p.val <= _max_sp(d))
         THEN Raise("ValueError", "InvalidPeriod", "_validate_sp")
         ELSE NoError

-----------------------------------------------------------------------------
(* sp2ts, lines 155-159: the supported date range and its check.  Ordering *)
(* a datetime against a date raises TypeError in Python.                   *)
min_date == from_unixtime_date(FirstSpring)
max_date == from_unixtime_date(LastFall)

(* date_range_check with the last supported date excluded.                 *)
date_range_check_exclusive(d) ==
    IF d.type = "datetime"
    THEN Raise("TypeError", "TypeMismatch", "sp2ts")
    ELSE IF d.val < min_date.val \/ d.val >= max_date.val
         THEN Raise("ValueError", "OutOfRange", "sp2ts")
         ELSE NoError

date_range_check(d) ==
    IF d.type = "datetime"
    THEN Raise("TypeError", "TypeMismatch", "sp2ts")
    ELSE IF d.val < min_date.val \/ d.val > max_date.val
         THEN Raise("ValueError", "OutOfRange", "sp2ts")
         ELSE NoError

(* right_closed_ts with the hour of the season added, not subtracted.      *)
right_closed_ts_added(d, p) ==
    LET date_ts == midnight_ts(d)
        ts_raw == date_ts + 30 * 60 * p.val
    IN IF in_bst(date_ts) THEN ts_raw + 3600 ELSE ts_raw

(* sp2ts, lines 160-165: the right-closed timestamp of (date, period).     *)
right_closed_ts(d, p) ==
    LET date_ts == midnight_ts(d)
        ts_raw == date_ts + 30 * 60 * p.val
    IN IF in_bst(date_ts) THEN ts_raw - 3600 ELSE ts_raw

(* sp2ts, lines 166-170: the shift selected by closed.                     *)
(* closed_shift with the shifts of "left" and "middle" exchanged.          *)
closed_shift_exchanged(c) ==
    IF Lower(c.val) = "left" THEN 900
    ELSE IF Lower(c.val) = "middle" THEN 1800
    ELSE 0

closed_shift(c) ==
    IF Lower(c.val) = "left" THEN 1800
    ELSE IF Lower(c.val) = "middle" THEN 900
    ELSE 0

(* sp2ts with the period range checked last, after the date range.        *)
sp2ts_period_range_last(d, p, c) ==
    LET e1 == _validate_date(d) IN
    IF ~e1.ok THEN e1 ELSE
    IF p.type # "int" THEN Raise("TypeError", "TypeMismatch", "_validate_sp") ELSE
    LET e3 == _validate_closed(c) IN
    IF ~e3.ok THEN e3 ELSE
    LET e4 == date_range_check(d) IN
    IF ~e4.ok THEN e4 ELSE
    LET e2 == _validate_sp(p, d) IN
    IF ~e2.ok THEN e2 ELSE
    ReturnTs(right_closed_ts(d, p) - closed_shift(c))

sp2ts(d, p, c) ==
    LET e1 == _validate_date(d) IN
    IF ~e1.ok THEN e1 ELSE
    LET e2 == _validate_sp(p, d) IN
    IF ~e2.ok THEN e2 ELSE
    LET e3 == _validate_closed(c) IN
    IF ~e3.ok THEN e3 ELSE
    LET e4 == date_range_check(d) IN
    IF ~e4.ok THEN e4 ELSE
    ReturnTs(right_closed_ts(d, p) - closed_shift(c))

(* The default of the parameter closed, line 129.                          *)
DefaultClosed == PyStr("right")

(* A call sp2ts(date_, sp_) or sp2ts(date_, sp_, closed).                  *)
sp2ts_call(d, p, c) == sp2ts(d, p, IF c = Omitted THEN DefaultClosed ELSE c)

-----------------------------------------------------------------------------
(* ts2sp, lines 215-218 and 219-220: the range and the alignment check.    *)
(* ts_range_check with the last supported timestamp excluded.             *)
ts_range_check_exclusive(t) ==
    IF t.val < FirstSpring \/ t.val >= LastFall
    THEN Raise("ValueError", "OutOfRange", "ts2sp")
    ELSE NoError

ts_range_check(t) ==
    IF t.val < FirstSpring \/ t.val > LastFall
    THEN Raise("ValueError", "OutOfRange", "ts2sp")
    ELSE NoError

(* ts_align_check accepting every quarter of an hour.                      *)
ts_align_check_quarter(t) ==
    IF t.val % 900 # 0
    THEN Raise("ValueError", "MisalignedTimestamp", "ts2sp")
    ELSE NoError

ts_align_check(t) ==
    IF t.val % 1800 # 0
    THEN Raise("ValueError", "MisalignedTimestamp", "ts2sp")
    ELSE NoError

(* ts2sp_raw testing the timestamp itself, not the start of its UTC day,   *)
(* against the table.                                                      *)
ts2sp_raw_bst_by_timestamp(t) ==
    LET d0 == from_unixtime_date(t)
        sp0 == (t % 86400) \div 1800
    IN <<d0, IF in_bst(t) THEN sp0 + 2 ELSE sp0>>

(* ts2sp, lines 221-227: UTC date and period index, BST adjustment made.   *)
(* hours = (t % 86400) / 3600. and int(hours / 0.5) are exact on a         *)
(* multiple of 1800, so the period is (t % 86400) div 1800.                *)
ts2sp_raw(t) ==
    LET d_ts == (t \div 86400) * 86400
        d0 == from_unixtime_date(t)
        sp0 == (t % 86400) \div 1800
    IN <<d0, IF in_bst(d_ts) THEN sp0 + 2 ELSE sp0>>

(* normalise_zero taking the previous day to have 48 periods.              *)
normalise_zero_48(ds) ==
    IF ds[2] = 0
    THEN LET prev == PyDate(ds[1].val - 1) IN <<prev, 48>>
    ELSE ds

(* ts2sp, lines 228-232: period 0 belongs to the previous day.             *)
normalise_zero(ds) ==
    IF ds[2] = 0
    THEN LET prev == PyDate(ds[1].val - 1) IN <<prev, _max_sp(prev)>>
    ELSE ds

(* normalise_overflow left out.                                            *)
normalise_overflow_none(ds) == ds

(* ts2sp, lines 233-237: a period beyond the day's last moves on a day.    *)
normalise_overflow(ds) ==
    LET max_sp == _max_sp(ds[1]) IN
    IF ds[2] > max_sp
    THEN <<PyDate(ds[1].val + 1), ds[2] - max_sp>>
    ELSE ds

ts2sp(t) ==
    LET e1 == _validate_timestamp(t) IN
    IF ~e1.ok THEN e1 ELSE
    LET e2 == ts_range_check(t) IN
    IF ~e2.ok THEN e2 ELSE
    LET e3 == ts_align_check(t) IN
    IF ~e3.ok THEN e3 ELSE
    LET ds == normalise_overflow(normalise_zero(ts2sp_raw(t.val)))
    IN ReturnSp(ds[1], ds[2])

-----------------------------------------------------------------------------
(* The offset from UTC that pytz gives a wall-clock reading w in timezone  *)
(* z (localize with is_dst=False: a reading that does not exist or occurs  *)
(* twice is taken as winter time).  Europe/London changes at 01:00 UTC on  *)
(* the dates whose UTC midnights make up the table                         *)
(* (get_transition_dates.py), so summer time holds for readings from 02:00 *)
(* on a spring date up to 01:00 on a fall date.                            *)
utcoffset(z, w) ==
    IF z = "Europe/London"
       /\ \E i \in 1..Len(TABLE_LITERAL) :
              /\ Spring(TABLE_LITERAL[i]) + 7200 <= w
              /\ w < Fall(TABLE_LITERAL[i]) + 3600
    THEN 3600
    ELSE 0

_validate_datetime(x) ==
    IF x.type # "datetime"
    THEN Raise("TypeError", "TypeMismatch", "_validate_datetime")
    ELSE NoError

_validate_timezone(z) ==
    IF z.type \notin {"NoneType", "str"}
    THEN Raise("TypeError", "TypeMismatch", "_validate_timezone")
    ELSE NoError

(* not timezone_: None and the empty string are false.                     *)
no_timezone(z) == z.type = "NoneType" \/ (z.type = "str" /\ z.val = "")

(* to_unixtime reading a naive datetime as UTC whatever timezone_ says.    *)
to_unixtime_naive_as_utc(x, z) ==
    LET e1 == _validate_datetime(x) IN
    IF ~e1.ok THEN e1 ELSE
    LET e2 == _validate_timezone(z) IN
    IF ~e2.ok THEN e2 ELSE
    IF no_timezone(z) /\ x.tzinfo = ""
    THEN Raise("Exception", "MissingTimezone", "to_unixtime")
    ELSE ReturnTs(x.wall - utcoffset(x.tzinfo, x.wall))

to_unixtime(x, z) ==
    LET e1 == _validate_datetime(x) IN
    IF ~e1.ok THEN e1 ELSE
    LET e2 == _validate_timezone(z) IN
    IF ~e2.ok THEN e2 ELSE
    IF no_timezone(z) /\ x.tzinfo = ""
    THEN Raise("Exception", "MissingTimezone", "to_unixtime")
    ELSE IF ~no_timezone(z) /\ x.tzinfo = ""
         THEN ReturnTs(x.wall - utcoffset(z.val, x.wall))
         ELSE ReturnTs(x.wall - utcoffset(x.tzinfo, x.wall))

(* from_unixtime(timestamp_), timezone_ left to its default "UTC".         *)
from_unixtime(t) ==
    LET e1 == _validate_timestamp(t) IN
    IF ~e1.ok THEN e1 ELSE
    LET e2 == _validate_timezone(PyStr("UTC")) IN
    IF ~e2.ok THEN e2 ELSE
    ReturnDt(PyDatetime(t.val, "UTC"))

sp2dt(d, p, c) ==
    LET r == sp2ts_call(d, p, c) IN
    IF ~r.ok THEN r ELSE from_unixtime(PyInt(r.ts))

(* dt2sp calling to_unixtime without the timezone.                         *)
dt2sp_timezone_dropped(x, z) ==
    IF no_timezone(z) /\ x.type # "datetime"
    THEN Raise("AttributeError", "TypeMismatch", "dt2sp")
    ELSE IF no_timezone(z) /\ x.tzinfo = ""
    THEN Raise("Exception", "MissingTimezone", "dt2sp")
    ELSE LET u == to_unixtime(x, PyNone) IN
         IF ~u.ok THEN u ELSE ts2sp(PyInt(u.ts))

(* dt2sp, lines 262-264.  Reading .tzinfo of a value that is not a         *)
(* datetime raises AttributeError.                                         *)
dt2sp(x, z) ==
    IF no_timezone(z) /\ x.type # "datetime"
    THEN Raise("AttributeError", "TypeMismatch", "dt2sp")
    ELSE IF no_timezone(z) /\ x.tzinfo = ""
    THEN Raise("Exception", "MissingTimezone", "dt2sp")
    ELSE LET u == to_unixtime(x, z) IN
         IF ~u.ok THEN u ELSE ts2sp(PyInt(u.ts))

-----------------------------------------------------------------------------
(* The older copy of the engine, src/sp2ts.py: no validation beyond the    *)
(* boundary string, no normalisation of the period in ts2sp.               *)
legacy_in_bst(ts) ==
    \E i \in 1..Len(legacy_TRANSITION_DATES_TS) :
        /\ Spring(legacy_TRANSITION_DATES_TS[i]) < ts
        /\ ts <= Fall(legacy_TRANSITION_DATES_TS[i])

(* datetime.combine raises TypeError on a value that is not a date, and    *)
(* .lower() AttributeError on one that is not a str; int(sp_) converts.    *)
legacy_sp2ts(d, p, c) ==
    LET cc == IF c = Omitted THEN PyStr("right") ELSE c IN
    IF cc.type # "str" THEN Raise("AttributeError", "TypeMismatch", "sp2ts") ELSE
    IF Lower(cc.val) \notin {"right", "left", "middle"}
    THEN Raise("Exception", "InvalidEnum", "sp2ts") ELSE
    IF d.type \notin {"date", "datetime"}
    THEN Raise("TypeError", "TypeMismatch", "sp2ts") ELSE
    LET date_ts == midnight_ts(d)
        ts_raw == date_ts + 30 * 60 * p.val
        right == IF legacy_in_bst(date_ts) THEN ts_raw - 3600 ELSE ts_raw
    IN ReturnTs(right - closed_shift(cc))

legacy_ts2sp(t) ==
    LET d_ts == (t.val \div 86400) * 86400
        d0 == from_unixtime_date(t.val)
        sp0 == (t.val % 86400) \div 1800
    IN ReturnSp(d0, IF legacy_in_bst(d_ts) THEN sp0 + 2 ELSE sp0)

-----------------------------------------------------------------------------
(* Inputs.  Dates are taken around every clock change of the table (and    *)
(* so around both ends of the supported range) and from inside each        *)
(* season; periods from one below the smallest to one above the largest.   *)
(* Python integers are unbounded; every timestamp of the model stays below *)
(* 2^31 (the last fall value plus MidOffset + 1 days), so that TLC's       *)
(* integers compute the same values.                                       *)
Margin == 1
MidOffset == 60
MaxPeriodInput == 51

TransitionDays ==
    {Spring(TABLE_LITERAL[i]) \div 86400 : i \in 1..Len(TABLE_LITERAL)}
        \cup {Fall(TABLE_LITERAL[i]) \div 86400 : i \in 1..Len(TABLE_LITERAL)}

DayInputs ==
    {t + k : t \in TransitionDays, k \in (-Margin)..Margin}
        \cup {t + MidOffset : t \in TransitionDays}

EdgeDays ==
    {(Spring(TABLE_LITERAL[1]) \div 86400) + k : k \in (-Margin)..Margin}
        \cup {(Fall(TABLE_LITERAL[Len(TABLE_LITERAL)]) \div 86400) + k : k \in (-Margin)..Margin}

RecognizedClosed == {PyStr("right"), PyStr("left"), PyStr("middle")}

ClosedInputs ==
    RecognizedClosed
        \cup {PyStr("LEFT"), PyStr("Right"), PyStr("centre"),
              [type |-> "NoneType", val |-> ""], Omitted}

DateInputs == {PyDate(d) : d \in DayInputs}

OddDateInputs ==
    {PyDate(d) : d \in EdgeDays}
        \cup {[type |-> "datetime", val |-> d] : d \in EdgeDays}
        \cup {[type |-> "str", val |-> 0], PyInt(1616803200)}

PeriodInputs == {PyInt(p) : p \in 0..MaxPeriodInput}

OddPeriodInputs ==
    PeriodInputs \cup {[type |-> "str", val |-> 1], [type |-> "float", val |-> 1]}

(* TEST_VALUES of Tests/test_sp2ts.py ("sp" and "ts" of each entry).       *)
TEST_VALUES ==
    <<
       [date |-> <<2020, 3, 28>>, sp |-> 24, ts |-> 1585396800],
       [date |-> <<2020, 3, 29>>, sp |-> 24, ts |-> 1585483200],
       [date |-> <<2020, 3, 30>>, sp |-> 24, ts |-> 1585566000],
       [date |-> <<2019, 10, 26>>, sp |-> 24, ts |-> 1572087600],
       [date |-> <<2019, 10, 27>>, sp |-> 24, ts |-> 1572174000],
       [date |-> <<2019, 10, 28>>, sp |-> 24, ts |-> 1572264000],
       [date |-> <<2021, 3, 27>>, sp |-> 1, ts |-> 1616805000],
       [date |-> <<2021, 3, 27>>, sp |-> 48, ts |-> 1616889600],
       [date |-> <<2021, 3, 28>>, sp |-> 1, ts |-> 1616891400],
       [date |-> <<2021, 3, 28>>, sp |-> 46, ts |-> 1616972400],
       [date |-> <<2021, 3, 29>>, sp |-> 1, ts |-> 1616974200],
       [date |-> <<2021, 3, 29>>, sp |-> 2, ts |-> 1616976000],
       [date |-> <<2021, 3, 29>>, sp |-> 3, ts |-> 1616977800],
       [date |-> <<2021, 10, 30>>, sp |-> 1, ts |-> 1635550200],
       [date |-> <<2021, 10, 30>>, sp |-> 48, ts |-> 1635634800],
       [date |-> <<2021, 10, 31>>, sp |-> 1, ts |-> 1635636600],
       [date |-> <<2021, 10, 31>>, sp |-> 48, ts |-> 1635721200],
       [date |-> <<2021, 10, 31>>, sp |-> 50, ts |-> 1635724800],
       [date |-> <<2021, 11, 1>>, sp |-> 1, ts |-> 1635726600],
       [date |-> <<2021, 11, 1>>, sp |-> 48, ts |-> 1635811200]
    >>

TestDate(v) == PyDate(DaysFromCivil(v.date[1], v.date[2], v.date[3]))

Sp2tsInputs ==
    (DateInputs \X PeriodInputs \X (RecognizedClosed \cup {Omitted}))
        \cup (OddDateInputs \X OddPeriodInputs \X ClosedInputs)
        \cup {<<TestDate(TEST_VALUES[i]), PyInt(TEST_VALUES[i].sp), Omitted>> :
                  i \in 1..Len(TEST_VALUES)}

AlignedTs == {86400 * d + 1800 * k : d \in DayInputs, k \in 0..47}

MisalignedTs ==
    {86400 * d + 1800 * k + o : d \in DayInputs, k \in {0, 23, 24}, o \in {1, 900, 1799}}

Ts2spInputs ==
    {PyInt(t) : t \in AlignedTs \cup MisalignedTs \cup {-86400, -1800, -1, 0, 1}}
        \cup {PyInt(TEST_VALUES[i].ts) : i \in 1..Len(TEST_VALUES)}
        \cup {[type |-> "str", val |-> 1585396800], [type |-> "float", val |-> 1585396800],
              [type |-> "datetime", val |-> 1585396800]}

(* Datetimes: the days of TEST_VALUES and the days at both ends of the     *)
(* supported range, at 00:00, 00:30, 01:30, 12:00, 12:34:56 and 23:30.     *)
DtDayInputs == EdgeDays \cup {TestDate(TEST_VALUES[i]).val : i \in 1..Len(TEST_VALUES)}

DatetimeInputs ==
    {PyDatetime(86400 * d + s, z) :
        d \in DtDayInputs,
        s \in {0, 1800, 5400, 43200, 45296, 84600},
        z \in {"", "UTC", "Europe/London"}}
        \cup {[type |-> "str", wall |-> 0, tzinfo |-> ""]}

TimezoneInputs ==
    {PyNone, PyStr(""), PyStr("UTC"), PyStr("Europe/London"), [type |-> "int", val |-> ""]}

Sp2dtInputs ==
    ({PyDate(d) : d \in DtDayInputs} \X PeriodInputs \X (RecognizedClosed \cup {Omitted}))
        \cup (OddDateInputs \X {PyInt(1), [type |-> "float", val |-> 1]}
                  \X {PyStr("centre"), Omitted})

(* Calls of the older copy: what the newer copy takes, inside the range of *)
(* the older table.                                                        *)
InLegacyRange(ts) ==
    /\ Spring(LEGACY_TABLE_LITERAL[1]) <= ts
    /\ ts <= Fall(LEGACY_TABLE_LITERAL[Len(LEGACY_TABLE_LITERAL)])

LegacySp2tsInputs ==
    {a \in DateInputs \X PeriodInputs \X (RecognizedClosed \cup {Omitted}) :
        InLegacyRange(86400 * a[1].val)}

LegacyTs2spInputs == {PyInt(t) : t \in {u \in AlignedTs : InLegacyRange(u)}}

(* Concurrent callers and the calls they make: for each function a call    *)
(* that returns or one that is rejected, several of them reading the last  *)
(* row of the table.                                                       *)
NCallers == 2
Callers == 1..NCallers

Call(f, d, p, c, t, x, z) ==
    [fn |-> f, date_ |-> d, sp_ |-> p, closed |-> c, timestamp_ |-> t,
     datetime_ |-> x, timezone_ |-> z]

NoCall == Call("", Absent, Absent, Omitted, Absent, AbsentDt, PyNone)
IdleCaller == [pc |-> "idle", call |-> NoCall, result |-> Pending]

ConcurrentCalls ==
    LET lastDay == Fall(TABLE_LITERAL[Len(TABLE_LITERAL)]) \div 86400
        springDay == DaysFromCivil(2020, 3, 29)
        reading == PyDatetime(86400 * springDay + 45296, "")
    IN { Call("sp2ts", PyDate(lastDay), PyInt(2), Omitted, Absent, AbsentDt, PyNone),
         Call("sp2ts", PyDate(springDay), PyInt(47), PyStr("left"), Absent, AbsentDt, PyNone),
         Call("ts2sp", Absent, Absent, Omitted, PyInt(86400 * lastDay), AbsentDt, PyNone),
         Call("ts2sp", Absent, Absent, Omitted, PyInt(86400 * springDay + 1), AbsentDt, PyNone),
         Call("sp2dt", PyDate(lastDay), PyInt(1), PyStr("middle"), Absent, AbsentDt, PyNone),
         Call("dt2sp", Absent, Absent, Omitted, Absent, reading, PyNone),
         Call("to_unixtime", Absent, Absent, Omitted, Absent, reading, PyStr("Europe/London")),
         Call("from_unixtime", Absent, Absent, Omitted, PyInt(-1), AbsentDt, PyNone) }

-----------------------------------------------------------------------------
Init ==
    /\ TRANSITION_DATES_TS = TABLE_LITERAL
    /\ legacy_TRANSITION_DATES_TS = LEGACY_TABLE_LITERAL
    /\ callers = [t \in Callers |-> IdleCaller]
    /\ observed = {}
    /\ pc = "call"
    /\ result = Pending
    /\ \/ /\ fn = "sp2ts"
          /\ \E a \in Sp2tsInputs : date_ = a[1] /\ sp_ = a[2] /\ closed = a[3]
          /\ timestamp_ = Absent /\ datetime_ = AbsentDt /\ timezone_ = PyNone
       \/ /\ fn = "ts2sp"
          /\ timestamp_ \in Ts2spInputs
          /\ date_ = Absent /\ sp_ = Absent /\ closed = Omitted
          /\ datetime_ = AbsentDt /\ timezone_ = PyNone
       \/ /\ fn = "_max_sp"
          /\ date_ \in DateInputs
          /\ sp_ = Absent /\ closed = Omitted /\ timestamp_ = Absent
          /\ datetime_ = AbsentDt /\ timezone_ = PyNone
       \/ /\ fn \in {"to_unixtime", "dt2sp"}
          /\ datetime_ \in DatetimeInputs
          /\ timezone_ \in TimezoneInputs
          /\ date_ = Absent /\ sp_ = Absent /\ closed = Omitted /\ timestamp_ = Absent
       \/ /\ fn = "sp2dt"
          /\ \E a \in Sp2dtInputs : date_ = a[1] /\ sp_ = a[2] /\ closed = a[3]
          /\ timestamp_ = Absent /\ datetime_ = AbsentDt /\ timezone_ = PyNone
       \/ /\ fn = "legacy_sp2ts"
          /\ \E a \in LegacySp2tsInputs : date_ = a[1] /\ sp_ = a[2] /\ closed = a[3]
          /\ timestamp_ = Absent /\ datetime_ = AbsentDt /\ timezone_ = PyNone
       \/ /\ fn = "legacy_ts2sp"
          /\ timestamp_ \in LegacyTs2spInputs
          /\ date_ = Absent /\ sp_ = Absent /\ closed = Omitted
          /\ datetime_ = AbsentDt /\ timezone_ = PyNone

(* A call sp2ts(date_, sp_, closed).                                       *)
Sp2ts ==
    /\ pc = "call" /\ fn = "sp2ts" /\ closed # Omitted
    /\ result' = sp2ts_call(date_, sp_, closed)
    /\ pc' = "return"
    /\ UNCHANGED frame

(* A call sp2ts(date_, sp_), closed left to its default.                   *)
Sp2tsDefault ==
    /\ pc = "call" /\ fn = "sp2ts" /\ closed = Omitted
    /\ result' = sp2ts_call(date_, sp_, closed)
    /\ pc' = "return"
    /\ UNCHANGED frame

(* A call ts2sp(timestamp_).                                               *)
Ts2sp ==
    /\ pc = "call" /\ fn = "ts2sp"
    /\ result' = ts2sp(timestamp_)
    /\ pc' = "return"
    /\ UNCHANGED frame

(* A call _max_sp(date_).                                                  *)
MaxSp ==
    /\ pc = "call" /\ fn = "_max_sp"
    /\ result' = ReturnInt(_max_sp(date_))
    /\ pc' = "return"
    /\ UNCHANGED frame

(* A call to_unixtime(datetime_, timezone_).                               *)
ToUnixtime ==
    /\ pc = "call" /\ fn = "to_unixtime"
    /\ result' = to_unixtime(datetime_, timezone_)
    /\ pc' = "return"
    /\ UNCHANGED frame

(* A call dt2sp(datetime_, timezone_).                                     *)
Dt2sp ==
    /\ pc = "call" /\ fn = "dt2sp"
    /\ result' = dt2sp(datetime_, timezone_)
    /\ pc' = "return"
    /\ UNCHANGED frame

(* A call sp2dt(date_, sp_) or sp2dt(date_, sp_, closed).                  *)
Sp2dt ==
    /\ pc = "call" /\ fn = "sp2dt"
    /\ result' = sp2dt(date_, sp_, closed)
    /\ pc' = "return"
    /\ UNCHANGED frame

(* A call sp2ts(date_, sp_) or sp2ts(date_, sp_, closed) of the older copy.*)
LegacySp2ts ==
    /\ pc = "call" /\ fn = "legacy_sp2ts"
    /\ result' = legacy_sp2ts(date_, sp_, closed)
    /\ pc' = "return"
    /\ UNCHANGED frame

(* A call ts2sp(timestamp_) of the older copy.                             *)
LegacyTs2sp ==
    /\ pc = "call" /\ fn = "legacy_ts2sp"
    /\ result' = legacy_ts2sp(timestamp_)
    /\ pc' = "return"
    /\ UNCHANGED frame

Next ==
    \/ Sp2ts \/ Sp2tsDefault \/ Ts2sp \/ MaxSp
    \/ ToUnixtime \/ Dt2sp \/ Sp2dt
    \/ LegacySp2ts \/ LegacyTs2sp

Spec == Init /\ [][Next]_vars

-----------------------------------------------------------------------------
(* Concurrent callers.  Every function is a step of the caller that called *)
(* it, taken between the steps of the other callers: it reads the table as *)
(* it is at that moment, hands its outcome to the caller and assigns       *)
(* nothing else (no function of the module has a global statement or       *)
(* changes TRANSITION_DATES_TS in place).                                  *)
ConcurrentInit ==
    /\ TRANSITION_DATES_TS = TABLE_LITERAL
    /\ legacy_TRANSITION_DATES_TS = LEGACY_TABLE_LITERAL
    /\ callers = [t \in Callers |-> IdleCaller]
    /\ observed = {}
    /\ pc = "idle" /\ fn = "" /\ result = Pending
    /\ date_ = Absent /\ sp_ = Absent /\ closed = Omitted /\ timestamp_ = Absent
    /\ datetime_ = AbsentDt /\ timezone_ = PyNone

Calling(t, f) == callers[t].pc = "call" /\ callers[t].call.fn = f

Finish(t, r) ==
    /\ callers' = [callers EXCEPT ![t] = [pc |-> "return", call |-> @.call, result |-> r]]
    /\ observed' = observed \cup {<<callers[t].call, r>>}

(* A caller starts a call.                                                 *)
Invoke ==
    \E t \in Callers, c \in ConcurrentCalls :
        /\ callers[t].pc = "idle"
        /\ callers' = [callers EXCEPT ![t] = [pc |-> "call", call |-> c, result |-> Pending]]
        /\ UNCHANGED <<TRANSITION_DATES_TS, legacy_TRANSITION_DATES_TS, observed, single>>

(* A caller that has its outcome goes on to its next call.                 *)
Resume ==
    \E t \in Callers :
        /\ callers[t].pc = "return"
        /\ callers' = [callers EXCEPT ![t] = IdleCaller]
        /\ UNCHANGED <<TRANSITION_DATES_TS, legacy_TRANSITION_DATES_TS, observed, single>>

ConcurrentSp2ts ==
    \E t \in Callers :
        /\ Calling(t, "sp2ts")
        /\ Finish(t, sp2ts_call(callers[t].call.date_, callers[t].call.sp_,
                                callers[t].call.closed))
        /\ UNCHANGED <<TRANSITION_DATES_TS, legacy_TRANSITION_DATES_TS, single>>

(* ts2sp taking the last row with TRANSITION_DATES_TS.pop(), not [-1].     *)
ConcurrentTs2sp_pop ==
    \E t \in Callers :
        /\ Calling(t, "ts2sp")
        /\ Len(TRANSITION_DATES_TS) > 1
        /\ Finish(t, ts2sp(callers[t].call.timestamp_))
        /\ TRANSITION_DATES_TS' = SubSeq(TRANSITION_DATES_TS, 1, Len(TRANSITION_DATES_TS) - 1)
        /\ UNCHANGED <<legacy_TRANSITION_DATES_TS, single>>

ConcurrentTs2sp ==
    \E t \in Callers :
        /\ Calling(t, "ts2sp")
        /\ Finish(t, ts2sp(callers[t].call.timestamp_))
        /\ UNCHANGED <<TRANSITION_DATES_TS, legacy_TRANSITION_DATES_TS, single>>

ConcurrentSp2dt ==
    \E t \in Callers :
        /\ Calling(t, "sp2dt")
        /\ Finish(t, sp2dt(callers[t].call.date_, callers[t].call.sp_,
                           callers[t].call.closed))
        /\ UNCHANGED <<TRANSITION_DATES_TS, legacy_TRANSITION_DATES_TS, single>>

ConcurrentDt2sp ==
    \E t \in Callers :
        /\ Calling(t, "dt2sp")
        /\ Finish(t, dt2sp(callers[t].call.datetime_, callers[t].call.timezone_))
        /\ UNCHANGED <<TRANSITION_DATES_TS, legacy_TRANSITION_DATES_TS, single>>

ConcurrentToUnixtime ==
    \E t \in Callers :
        /\ Calling(t, "to_unixtime")
        /\ Finish(t, to_unixtime(callers[t].call.datetime_, callers[t].call.timezone_))
        /\ UNCHANGED <<TRANSITION_DATES_TS, legacy_TRANSITION_DATES_TS, single>>

ConcurrentFromUnixtime ==
    \E t \in Callers :
        /\ Calling(t, "from_unixtime")
        /\ Finish(t, from_unixtime(callers[t].call.timestamp_))
        /\ UNCHANGED <<TRANSITION_DATES_TS, legacy_TRANSITION_DATES_TS, single>>

ConcurrentNext ==
    \/ Invoke \/ Resume
    \/ ConcurrentSp2ts \/ ConcurrentTs2sp \/ ConcurrentSp2dt
    \/ ConcurrentDt2sp \/ ConcurrentToUnixtime \/ ConcurrentFromUnixtime

ConcurrentSpec == ConcurrentInit /\ [][ConcurrentNext]_vars

-----------------------------------------------------------------------------
(* Properties.  The reference notions below are read off the table literal *)
(* and the statement of each property, not off the operators above.        *)
SpringValues == {Spring(TABLE_LITERAL[i]) : i \in 1..Len(TABLE_LITERAL)}
FallValues == {Fall(TABLE_LITERAL[i]) : i \in 1..Len(TABLE_LITERAL)}
SupportedMinTs == Spring(TABLE_LITERAL[1])
SupportedMaxTs == Fall(TABLE_LITERAL[Len(TABLE_LITERAL)])
SupportedMinDay == SupportedMinTs \div 86400
SupportedMaxDay == SupportedMaxTs \div 86400

maxPeriodsForDate(day) ==
    IF 86400 * day \in SpringValues THEN 46
    ELSE IF 86400 * day \in FallValues THEN 50
    ELSE 48

Returned(f) == pc = "return" /\ fn = f

(* A finished sp2ts call on a calendar date, an integer period and one of  *)
(* the three boundary values (or none).                                    *)
PlainSp2ts ==
    /\ Returned("sp2ts")
    /\ date_.type = "date"
    /\ sp_.type = "int"
    /\ closed \in RecognizedClosed \cup {Omitted}

DateInRange == SupportedMinDay <= date_.val /\ date_.val <= SupportedMaxDay
PeriodValid == 1 <= sp_.val /\ sp_.val <= maxPeriodsForDate(date_.val)

(* A finished ts2sp call on an integer.                                    *)
PlainTs2sp == Returned("ts2sp") /\ timestamp_.type = "int"
TsInRange == SupportedMinTs <= timestamp_.val /\ timestamp_.val <= SupportedMaxTs

(* C1: for every date in the supported date range and every period with   *)
(* 1 <= period <= maxPeriodsForDate(date), sp2ts(date, period) returns a   *)
(* timestamp t and ts2sp(t) returns exactly (date, period).                *)
C1_RoundTripDatePeriod ==
    (PlainSp2ts /\ closed \in {Omitted, PyStr("right")} /\ DateInRange /\ PeriodValid)
        => /\ result.ok
           /\ ts2sp(PyInt(result.ts)) = ReturnSp(date_, sp_.val)

(* C2: for every timestamp t with first.spring <= t <= last.fall and       *)
(* t % 1800 = 0, ts2sp(t) returns a pair (date, period) that sp2ts accepts *)
(* and sp2ts(date, period) = t.                                            *)
C2_RoundTripTimestamp ==
    (PlainTs2sp /\ TsInRange /\ timestamp_.val % 1800 = 0)
        => /\ result.ok
           /\ sp2ts_call(result.date, PyInt(result.sp), Omitted) = ReturnTs(timestamp_.val)

(* C3: _max_sp(d) is 46 exactly when the UTC midnight of d is the spring   *)
(* value of a table entry, 50 exactly when it is the fall value of a table *)
(* entry, and 48 for every other date; each date gets exactly one of the   *)
(* three day lengths.                                                      *)
C3_DayLength ==
    Returned("_max_sp")
        => LET ts == 86400 * date_.val IN
           /\ result.val \in {46, 48, 50}
           /\ result.val = 46 <=> ts \in SpringValues
           /\ result.val = 50 <=> ts \in FallValues
           /\ result.val = 48 <=> ts \notin SpringValues \cup FallValues

C3_Witness == Returned("_max_sp") /\ 86400 * date_.val \in FallValues /\ result.val = 50

(* C4: for an in-range date and a recognized boundary, sp2ts(date, period) *)
(* succeeds if and only if 1 <= period <= maxPeriodsForDate(date) and      *)
(* otherwise fails with InvalidPeriod.                                     *)
C4_PeriodValidation ==
    (PlainSp2ts /\ DateInRange)
        => /\ result.ok <=> PeriodValid
           /\ ~result.ok => result.kind = "InvalidPeriod"

C4_Witness ==
    /\ PlainSp2ts /\ DateInRange
    /\ 86400 * date_.val \in FallValues
    /\ sp_.val = 50
    /\ result.ok

(* C5 as stated: ts2sp(t) fails with MisalignedTimestamp for every integer *)
(* t with t % 1800 # 0.                                                    *)
C5_MisalignedEveryInteger ==
    (PlainTs2sp /\ timestamp_.val % 1800 # 0)
        => ~result.ok /\ result.kind = "MisalignedTimestamp"

(* C5 amended: ts2sp(t) returns no (date, period) for any integer t with   *)
(* t % 1800 # 0; it fails with MisalignedTimestamp when t lies in          *)
(* [first.spring, last.fall] and with OutOfRange when t lies outside it.   *)
C5_Misaligned ==
    (PlainTs2sp /\ timestamp_.val % 1800 # 0)
        => /\ ~result.ok
           /\ TsInRange => result.kind = "MisalignedTimestamp"
           /\ ~TsInRange => result.kind = "OutOfRange"

C5_Witness ==
    /\ PlainTs2sp /\ TsInRange
    /\ timestamp_.val % 1800 = 900
    /\ result.kind = "MisalignedTimestamp"

(* C6: ts2sp(t) fails with OutOfRange for every integer t strictly below   *)
(* first.spring (negative t included) or strictly above last.fall, and     *)
(* does not fail with OutOfRange for any t inside that closed interval.    *)
C6_OutOfRangeTimestamp ==
    PlainTs2sp
        => /\ ~TsInRange => ~result.ok /\ result.kind = "OutOfRange"
           /\ TsInRange => result.kind # "OutOfRange"

C6_Witness ==
    /\ PlainTs2sp
    /\ timestamp_.val > SupportedMaxTs
    /\ timestamp_.val % 1800 = 0
    /\ result.kind = "OutOfRange"

(* The supported window the test suite states (Tests/test_sp2ts.py).       *)
TestMinSupportedTs == 954028800
TestMaxSupportedTs == 1887840000

(* C7: ts2sp raises ValueError for every 1800-aligned timestamp below      *)
(* 954028800 or above 1887840000.                                          *)
C7_TestSuiteWindow ==
    (/\ PlainTs2sp
     /\ timestamp_.val % 1800 = 0
     /\ (timestamp_.val < TestMinSupportedTs \/ timestamp_.val > TestMaxSupportedTs))
        => ~result.ok /\ result.exc = "ValueError"

(* C8: with a period valid for the date and a recognized boundary, sp2ts   *)
(* fails with OutOfRange if and only if the date is earlier than the civil *)
(* date of first.spring or later than the civil date of last.fall, and     *)
(* returns a timestamp for every date inside that closed range.            *)
C8_OutOfRangeDate ==
    (PlainSp2ts /\ PeriodValid)
        => /\ (~result.ok /\ result.kind = "OutOfRange") <=> ~DateInRange
           /\ DateInRange => result.ok

C8_Witness ==
    /\ PlainSp2ts /\ PeriodValid
    /\ date_.val = SupportedMaxDay + 1
    /\ result.kind = "OutOfRange"

(* The boundary a call passes to the body of sp2ts.                        *)
GivenClosed == IF closed = Omitted THEN PyStr("right") ELSE closed
ClosedIsRecognized == Lower(GivenClosed.val) \in {"right", "left", "middle"}

C10_BoundaryVariants ==
    (PlainSp2ts /\ result.ok)
        => LET right == sp2ts(date_, sp_, PyStr("right")) IN
           /\ right.ok
           /\ closed = PyStr("left") => result.ts = right.ts - 1800
           /\ closed = PyStr("middle") => result.ts = right.ts - 900
           /\ closed = Omitted => result.ts = right.ts

C10_Witness ==
    /\ PlainSp2ts /\ result.ok
    /\ closed = PyStr("left")
    /\ in_bst(86400 * date_.val)

-----------------------------------------------------------------------------
(* Reference notions of the conversions, read off the table literal.       *)
InSeason(ts) ==
    \E i \in 1..Len(TABLE_LITERAL) :
        TABLE_LITERAL[i][1] < ts /\ ts <= TABLE_LITERAL[i][2]

utcDay(t) == t \div 86400
period0(t) == ((t % 86400) \div 1800) + (IF InSeason(86400 * utcDay(t)) THEN 2 ELSE 0)

(* C11: for every entry of TEST_VALUES, sp2ts(date, period) returns the    *)
(* listed timestamp and ts2sp(timestamp) returns the listed (date, period).*)
C11_ReferenceValues ==
    \A i \in 1..Len(TEST_VALUES) :
        LET v == TEST_VALUES[i] IN
        /\ (/\ Returned("sp2ts")
            /\ date_ = TestDate(v) /\ sp_ = PyInt(v.sp) /\ closed = Omitted)
               => result = ReturnTs(v.ts)
        /\ (Returned("ts2sp") /\ timestamp_ = PyInt(v.ts))
               => result = ReturnSp(TestDate(v), v.sp)

C11_Witness ==
    /\ Returned("ts2sp")
    /\ timestamp_ = PyInt(1635724800)
    /\ result.ok
    /\ 86400 * result.date.val = 1635638400
    /\ result.sp = 50

(* C12: for every timestamp that ts2sp accepts, the returned period p      *)
(* satisfies 1 <= p <= maxPeriodsForDate(returned date).                   *)
C12_ResultValidity ==
    (Returned("ts2sp") /\ result.ok)
        => /\ 1 <= result.sp
           /\ result.sp <= maxPeriodsForDate(result.date.val)

C12_Witness ==
    /\ Returned("ts2sp") /\ result.ok
    /\ period0(timestamp_.val) = 49
    /\ maxPeriodsForDate(utcDay(timestamp_.val)) = 48
    /\ result.sp = 1

(* C13: sp2ts fails with TypeMismatch whenever date_ is not a plain        *)
(* calendar date or sp_ is not an integer, whatever the other arguments;   *)
(* ts2sp fails with TypeMismatch whenever timestamp_ is not an integer.    *)
C13_TypeMismatch ==
    /\ (Returned("sp2ts") /\ (date_.type # "date" \/ sp_.type # "int"))
           => ~result.ok /\ result.kind = "TypeMismatch"
    /\ (Returned("ts2sp") /\ timestamp_.type # "int")
           => ~result.ok /\ result.kind = "TypeMismatch"

(* A finished sp2ts call that reaches the check of a boundary string: a    *)
(* calendar date, a period valid for it, a string passed as closed.        *)
BoundaryChecked ==
    /\ Returned("sp2ts")
    /\ date_.type = "date"
    /\ sp_.type = "int" /\ PeriodValid
    /\ closed.type = "str"

(* C14 as stated: sp2ts fails with InvalidEnum for every boundary string   *)
(* that is not exactly "right", "left" or "middle", and returns a          *)
(* timestamp only for those three strings.                                 *)
C14_InvalidBoundaryExact ==
    BoundaryChecked
        => /\ closed.val \notin {"right", "left", "middle"}
                  => ~result.ok /\ result.kind = "InvalidEnum"
           /\ result.ok => closed.val \in {"right", "left", "middle"}

(* C14 amended: sp2ts fails with InvalidEnum for every boundary string     *)
(* whose lower-case form is not "right", "left" or "middle", and returns a *)
(* timestamp only for the other strings; on an in-range date a string such *)
(* as "LEFT" or "Right" is accepted and gives the result of its lower-case *)
(* form.                                                                   *)
C14_InvalidBoundary ==
    BoundaryChecked
        => /\ Lower(closed.val) \notin {"right", "left", "middle"}
                  => ~result.ok /\ result.kind = "InvalidEnum"
           /\ result.ok => Lower(closed.val) \in {"right", "left", "middle"}
           /\ (Lower(closed.val) \in {"right", "left", "middle"} /\ DateInRange)
                  => /\ result.ok
                     /\ result = sp2ts(date_, sp_, PyStr(Lower(closed.val)))

C14_Witness ==
    /\ BoundaryChecked /\ DateInRange
    /\ closed = PyStr("LEFT")
    /\ result.ok

(* Start of the calendar year y, and the calendar year holding instant ts. *)
YearStartTs(y) == 86400 * DaysFromCivil(y, 1, 1)
YearOf(ts) == CHOOSE y \in 1970..2037 : YearStartTs(y) <= ts /\ ts < YearStartTs(y + 1)

(* The rows of the literal: strictly ascending when flattened, every value *)
(* a UTC midnight, no value both a spring and a fall value, and row i      *)
(* inside the i-th calendar year counted from the first row's year.        *)
LiteralWellFormed ==
    LET T == TABLE_LITERAL
        n == Len(T)
        y0 == YearOf(Spring(T[1]))
    IN /\ \A i \in 1..n : Spring(T[i]) < Fall(T[i])
       /\ \A i \in 1..(n - 1) : Fall(T[i]) < Spring(T[i + 1])
       /\ \A i \in 1..n : Spring(T[i]) % 86400 = 0 /\ Fall(T[i]) % 86400 = 0
       /\ \A i, j \in 1..n : Spring(T[i]) # Fall(T[j])
       /\ \A i \in 1..n :
              /\ YearStartTs(y0 + i - 1) <= Spring(T[i])
              /\ Fall(T[i]) < YearStartTs(y0 + i)

(* C16: the table is strictly ascending when flattened, every value is a   *)
(* UTC midnight, no value is both a spring and a fall value, and there is  *)
(* exactly one (spring, fall) pair for each consecutive calendar year from *)
(* the first entry's year on, both values falling in that year: in every   *)
(* state the table is the literal, and the literal is well formed.         *)
C16_TableWellFormed == TRANSITION_DATES_TS = TABLE_LITERAL /\ LiteralWellFormed

C16_Witness ==
    /\ Returned("_max_sp")
    /\ Len(TRANSITION_DATES_TS) = 48
    /\ YearOf(Spring(TRANSITION_DATES_TS[1])) = 1990
    /\ YearOf(Fall(TRANSITION_DATES_TS[48])) = 2037
    /\ result.val = 46

(* C18: the right-closed result of sp2ts is 86400 * days + 1800 * period   *)
(* - 3600 when some table entry has spring < midnight <= fall, and         *)
(* 86400 * days + 1800 * period otherwise; the spring-forward date gets no *)
(* correction and the fall-back date gets it.                              *)
C18_BstCorrection ==
    (PlainSp2ts /\ closed \in {Omitted, PyStr("right")} /\ result.ok)
        => LET m == 86400 * date_.val
               raw == m + 1800 * sp_.val
           IN /\ result.ts = IF InSeason(m) THEN raw - 3600 ELSE raw
              /\ m \in SpringValues => result.ts = raw
              /\ m \in FallValues => result.ts = raw - 3600

C18_Witness ==
    /\ PlainSp2ts /\ closed = PyStr("right") /\ result.ok
    /\ 86400 * date_.val \in FallValues
    /\ result.ts = 86400 * date_.val + 1800 * sp_.val - 3600

(* C19: with period0 = (t mod 86400) div 1800, plus 2 when the UTC day     *)
(* start of t lies in a season, ts2sp returns (a) the previous UTC date    *)
(* and its maximum when period0 = 0, (b) otherwise the next UTC date and   *)
(* period0 minus the UTC date's maximum when period0 exceeds that maximum, *)
(* (c) otherwise the UTC date and period0.                                 *)
C19_Normalization ==
    (Returned("ts2sp") /\ result.ok)
        => LET u == utcDay(timestamp_.val)
               p0 == period0(timestamp_.val)
           IN IF p0 = 0
              THEN result.date = PyDate(u - 1) /\ result.sp = maxPeriodsForDate(u - 1)
              ELSE IF p0 > maxPeriodsForDate(u)
                   THEN result.date = PyDate(u + 1) /\ result.sp = p0 - maxPeriodsForDate(u)
                   ELSE result.date = PyDate(u) /\ result.sp = p0

C19_Witness ==
    /\ Returned("ts2sp") /\ result.ok
    /\ period0(timestamp_.val) = 0
    /\ result.date = PyDate(utcDay(timestamp_.val) - 1)
    /\ result.sp = 50

-----------------------------------------------------------------------------
(* Datetime calls.                                                         *)
DatetimeCall ==
    /\ Returned("to_unixtime") \/ Returned("dt2sp")
    /\ datetime_.type = "datetime"
    /\ timezone_.type \in {"NoneType", "str"}

Naive == datetime_.tzinfo = ""

(* No timezone name is supplied: the argument is left out (None) or is the *)
(* empty string, which names no timezone.                                  *)
NoTimezoneSupplied == timezone_ = PyNone \/ timezone_ = PyStr("")

MissingTimezoneFailure ==
    /\ ~result.ok
    /\ result.kind = "MissingTimezone"
    /\ DOMAIN result = DOMAIN Raise("", "", "")

(* The function that was called, applied to other arguments.               *)
called(x, z) == IF fn = "to_unixtime" THEN to_unixtime(x, z) ELSE dt2sp(x, z)

(* 12:34:56 on the two days of test_to_unixtime, read in Europe/London.    *)
TestReading(y, m, d) ==
    /\ Returned("to_unixtime")
    /\ datetime_.type = "datetime"
    /\ datetime_.wall = 86400 * DaysFromCivil(y, m, d) + 45296
    /\ \/ datetime_.tzinfo = "Europe/London" /\ timezone_ = PyNone
       \/ datetime_.tzinfo = "" /\ timezone_ = PyStr("Europe/London")

(* C15: to_unixtime and dt2sp fail with MissingTimezone, and return        *)
(* nothing, exactly when the datetime is naive and no timezone is          *)
(* supplied; a naive datetime with a timezone name gives what the same     *)
(* reading made aware in that timezone gives; for an aware datetime the    *)
(* timezone argument changes nothing; the two readings of                  *)
(* test_to_unixtime convert to the timestamps the test expects.            *)
C15_MissingTimezone ==
    /\ DatetimeCall => (MissingTimezoneFailure <=> (Naive /\ NoTimezoneSupplied))
    /\ (DatetimeCall /\ Naive /\ ~NoTimezoneSupplied) =>
           result = called(PyDatetime(datetime_.wall, timezone_.val), PyNone)
    /\ (DatetimeCall /\ ~Naive) => result = called(datetime_, PyNone)
    /\ (DatetimeCall /\ Returned("to_unixtime") /\ ~(Naive /\ NoTimezoneSupplied)) =>
           result.ok
    /\ TestReading(2020, 3, 28) => result = ReturnTs(1585398896)
    /\ TestReading(2020, 3, 29) => result = ReturnTs(1585481696)

C15_Witness ==
    /\ Returned("dt2sp")
    /\ datetime_.type = "datetime" /\ Naive /\ timezone_ = PyNone
    /\ MissingTimezoneFailure

C20_CopiesAgree ==
    /\ (Returned("legacy_sp2ts") /\ InLegacyRange(midnight_ts(date_))) =>
           LET n == sp2ts_call(date_, sp_, closed) IN n.ok => result = n
    /\ (Returned("legacy_ts2sp") /\ InLegacyRange(timestamp_.val)) =>
           LET n == ts2sp(timestamp_) IN n.ok => result = n

-----------------------------------------------------------------------------
Right == PyStr("right")

(* A finished sp2ts call on an in-range calendar date and a valid period.  *)
ValidSp2ts == PlainSp2ts /\ DateInRange /\ PeriodValid

(* C22: periods tile the timeline.  The left edge of period p is the right *)
(* edge of period p - 1 of the same date, or, for p = 1, the right edge of *)
(* the last period of the previous date when that date is in range; a date *)
(* spans 1800 * maxPeriodsForDate(date) seconds from the left edge of its  *)
(* first period to the right edge of its last; the right edge grows        *)
(* strictly from each period to the next one in (date, period) order.      *)
C22_Tiling ==
    /\ (ValidSp2ts /\ closed = PyStr("left")) =>
           /\ result.ok
           /\ sp_.val > 1 => result = sp2ts(date_, PyInt(sp_.val - 1), Right)
           /\ (sp_.val = 1 /\ SupportedMinDay <= date_.val - 1) =>
                  result = sp2ts(PyDate(date_.val - 1),
                                 PyInt(maxPeriodsForDate(date_.val - 1)), Right)
           /\ sp_.val = 1 =>
                  LET last == sp2ts(date_, PyInt(maxPeriodsForDate(date_.val)), Right)
                  IN last.ok /\ last.ts - result.ts = 1800 * maxPeriodsForDate(date_.val)
    /\ (ValidSp2ts /\ GivenClosed = Right) =>
           /\ result.ok
           /\ sp_.val < maxPeriodsForDate(date_.val) =>
                  LET n == sp2ts(date_, PyInt(sp_.val + 1), Right)
                  IN n.ok /\ result.ts < n.ts
           /\ (sp_.val = maxPeriodsForDate(date_.val) /\ date_.val + 1 <= SupportedMaxDay) =>
                  LET n == sp2ts(PyDate(date_.val + 1), PyInt(1), Right)
                  IN n.ok /\ result.ts < n.ts

C22_Witness ==
    /\ ValidSp2ts /\ closed = PyStr("left") /\ sp_.val = 1
    /\ 86400 * date_.val \in SpringValues
    /\ SupportedMinDay <= date_.val - 1
    /\ result = ReturnTs(86400 * date_.val)
    /\ result = sp2ts(PyDate(date_.val - 1), PyInt(48), Right)

(* C23: every timestamp sp2ts returns lies inside the window ts2sp         *)
(* supports, first.spring <= t <= last.fall.                               *)
C23_ResultInWindow ==
    (Returned("sp2ts") /\ result.ok) =>
        SupportedMinTs <= result.ts /\ result.ts <= SupportedMaxTs

(* The two normalisation steps of an accepted ts2sp call: whether each     *)
(* test of the code succeeds.                                              *)
ZeroStepFires == ts2sp_raw(timestamp_.val)[2] = 0

OverflowStepFires ==
    LET ds == normalise_zero(ts2sp_raw(timestamp_.val))
    IN ds[2] > _max_sp(ds[1])

(* C24: in one accepted ts2sp call the period-0 step and the overflow step *)
(* never both fire; the period-0 step fires only at UTC midnight of a day  *)
(* whose start is outside every (spring, fall] season; the overflow step   *)
(* fires only on a non-zero period and then the returned period is 1.      *)
C24_NormalizationSteps ==
    (Returned("ts2sp") /\ result.ok) =>
        /\ ~(ZeroStepFires /\ OverflowStepFires)
        /\ ZeroStepFires =>
               /\ timestamp_.val % 86400 = 0
               /\ ~InSeason(86400 * utcDay(timestamp_.val))
        /\ OverflowStepFires =>
               /\ ts2sp_raw(timestamp_.val)[2] # 0
               /\ result.sp = 1
               /\ result.date = PyDate(utcDay(timestamp_.val) + 1)

C24_Witness ==
    /\ Returned("ts2sp") /\ result.ok
    /\ OverflowStepFires
    /\ 86400 * utcDay(timestamp_.val) \in SpringValues
    /\ result.sp = 1

-----------------------------------------------------------------------------
(* C21: no call, returned or rejected, changes the transition table (the   *)
(* only state the calls share), and among concurrent callers making calls  *)
(* one after another a call with given arguments always has the same       *)
(* outcome: no two outcomes observed for one call differ.                  *)
C21_NoSideEffects ==
    /\ TRANSITION_DATES_TS = TABLE_LITERAL
    /\ legacy_TRANSITION_DATES_TS = LEGACY_TABLE_LITERAL
    /\ \A o1, o2 \in observed : o1[1] = o2[1] => o1[2] = o2[2]
    /\ \A t \in Callers :
           callers[t].pc = "return" => <<callers[t].call, callers[t].result>> \in observed

C21_Witness ==
    /\ observed # {}
    /\ \A c \in ConcurrentCalls : \E o \in observed : o[1] = c
    /\ \E o \in observed : o[2].ok
    /\ \E o \in observed : ~o[2].ok
    /\ \A t \in Callers :
           /\ callers[t].pc = "return"
           /\ callers[t].call.fn = "ts2sp"
           /\ callers[t].result = ReturnSp(PyDate(SupportedMaxDay), 2)

====
